---- MODULE Spec2Model ----
(***************************************************************************)
(* Model of the question-tree engine of tree.cpp: the recursive builder    *)
(* QuestionTree::buildTree, the session state (root, characters) and the   *)
(* operations setAnswer, getCharacter and getQuestionText.                 *)
(***************************************************************************)
EXTENDS Integers, Sequences, FiniteSets

\* ---------------------------------------------------------------- bounds
MaxId == 2          \* the universe is 1..n for some n in 1..MaxId
MaxQuestions == 2   \* the CSV holds at most this many question rows

\* ---------------------------------------------------- program constants
INT_MAX == 2147483647
LeafId == -1

VARIABLES
    universe,        \* the initial value of QuestionTree::characters
    pool,            \* the vector returned by readQuestionsFromCSV
    root,            \* QuestionTree::root
    characters,      \* QuestionTree::characters
    node_ids,        \* argument remaining_ids of the buildTree call that made *root
    node_questions,  \* argument questions of the buildTree call that made *root
    answers,         \* the answers passed to setAnswer at nodes so far
    asked,           \* the q_id of the node each of those answers was given at
    crashed          \* the process died dereferencing a null root

vars == <<universe, pool, root, characters, node_ids, node_questions,
          answers, asked, crashed>>

\* ------------------------------------------------------------ data model
nullptr == [null |-> TRUE]

Question(id, txt, pos_ids, neg_ids) ==
    [q_id |-> id, text |-> txt, positive_ids |-> pos_ids,
     negative_ids |-> neg_ids, left |-> nullptr, right |-> nullptr]

abs(x) == IF x < 0 THEN -x ELSE x

\* std::set_intersection / std::set_difference on std::set<int>
set_intersection(a, b) == a \cap b

\* set_difference with its two ranges exchanged
set_difference_swapped(a, b) == b \ a

set_difference(a, b) == a \ b

\* ------------------------------------------------------------- buildTree
\* |remaining /\ positive| - |remaining /\ negative|, absolute value
difference(remaining_ids, q) ==
    abs(Cardinality(set_intersection(remaining_ids, q.positive_ids))
        - Cardinality(set_intersection(remaining_ids, q.negative_ids)))

\* the selection loop with <= for <: the last record of minimum score wins
RECURSIVE SelectLoopLast(_, _, _, _, _)
SelectLoopLast(remaining_ids, questions, i, best_question, min_difference) ==
    IF i > Len(questions) THEN best_question
    ELSE IF difference(remaining_ids, questions[i]) <= min_difference
         THEN SelectLoopLast(remaining_ids, questions, i + 1, i,
                             difference(remaining_ids, questions[i]))
         ELSE SelectLoopLast(remaining_ids, questions, i + 1,
                             best_question, min_difference)

\* the selection loop: index of best_question in questions, 0 for nullptr
RECURSIVE SelectLoop(_, _, _, _, _)
SelectLoop(remaining_ids, questions, i, best_question, min_difference) ==
    IF i > Len(questions) THEN best_question
    ELSE IF difference(remaining_ids, questions[i]) < min_difference
         THEN SelectLoop(remaining_ids, questions, i + 1, i,
                         difference(remaining_ids, questions[i]))
         ELSE SelectLoop(remaining_ids, questions, i + 1,
                         best_question, min_difference)

SelectBest(remaining_ids, questions) ==
    SelectLoop(remaining_ids, questions, 1, 0, INT_MAX)

\* remaining_questions with the first pointer dropped, whichever won
RemainingQuestionsDropFirst(questions, best_question) ==
    SubSeq(questions, 2, Len(questions))

\* the vector remaining_questions: every pointer but best_question
RemainingQuestions(questions, best_question) ==
    SubSeq(questions, 1, best_question - 1)
        \o SubSeq(questions, best_question + 1, Len(questions))

\* the two terminal tests with the empty-pool test made first
TerminalCasePoolFirst(remaining_ids, questions) ==
    IF questions = <<>> THEN "no more questions"
    ELSE IF Cardinality(remaining_ids) = 1 THEN "identified"
    ELSE "none"

\* the two terminal tests, in the order the code makes them
TerminalCase(remaining_ids, questions) ==
    IF Cardinality(remaining_ids) = 1 THEN "identified"
    ELSE IF questions = <<>> THEN "no more questions"
    ELSE "none"

IdentifiedLeaf(id) ==
    Question(LeafId, <<"Character identified: ", id>>, {}, {})

NoMoreQuestionsLeaf ==
    Question(LeafId, <<"No more questions. Unable to identify.">>, {}, {})

UnableLeaf ==
    Question(LeafId, <<"Unable to further differentiate.">>, {}, {})

\* the node with the assignment of node->right left out
MakeNodeNoRight(best_question, l, r) ==
    [q_id |-> best_question.q_id,
     text |-> best_question.text,
     positive_ids |-> best_question.positive_ids,
     negative_ids |-> best_question.negative_ids,
     left |-> l,
     right |-> nullptr]

\* new Question(best_question...) with node->left and node->right assigned
MakeNode(best_question, l, r) ==
    [q_id |-> best_question.q_id,
     text |-> best_question.text,
     positive_ids |-> best_question.positive_ids,
     negative_ids |-> best_question.negative_ids,
     left |-> l,
     right |-> r]

RECURSIVE buildTree(_, _)
buildTree(remaining_ids, questions) ==
    IF TerminalCase(remaining_ids, questions) = "identified"
    THEN IdentifiedLeaf(CHOOSE c \in remaining_ids : TRUE)
    ELSE IF TerminalCase(remaining_ids, questions) = "no more questions"
    THEN NoMoreQuestionsLeaf
    ELSE LET best == SelectBest(remaining_ids, questions)
         IN IF best = 0
            THEN UnableLeaf
            ELSE LET best_question == questions[best]
                     pos_ids == set_intersection(remaining_ids,
                                                 best_question.positive_ids)
                     neg_ids == set_intersection(remaining_ids,
                                                 best_question.negative_ids)
                     remaining_questions == RemainingQuestions(questions, best)
                 IN MakeNode(best_question,
                             buildTree(pos_ids, remaining_questions),
                             buildTree(neg_ids, remaining_questions))

\* --------------------------------------------------------------- session
getQuestionText == root.text

\* getCharacter: the id handed to readCharacterByID; with more than one
\* character left the function returns without a value.
getCharacter ==
    IF Cardinality(characters) > 1 THEN [outcome |-> "NoValue", id |-> 0]
    ELSE IF Cardinality(characters) < 1 THEN [outcome |-> "Lookup", id |-> 0]
    ELSE [outcome |-> "Lookup", id |-> CHOOSE c \in characters : TRUE]

IsLeaf(node) ==
    node # nullptr /\ node.q_id = LeafId
        /\ node.left = nullptr /\ node.right = nullptr

IsInternal(node) ==
    node # nullptr /\ node.left # nullptr /\ node.right # nullptr

\* the rows of the CSV: ids are the row numbers
QuestionRows(n, len) ==
    { q \in [1..len -> (SUBSET (1..n)) \X (SUBSET (1..n))] : TRUE }

MakePool(rows) ==
    [i \in DOMAIN rows |-> Question(i, <<"Q", i>>, rows[i][1], rows[i][2])]

Init ==
    \E n \in 1..MaxId, len \in 0..MaxQuestions :
      \E rows \in QuestionRows(n, len) :
        /\ universe = 1..n
        /\ pool = MakePool(rows)
        /\ characters = 1..n
        /\ root = buildTree(1..n, MakePool(rows))
        /\ node_ids = 1..n
        /\ node_questions = MakePool(rows)
        /\ answers = <<>>
        /\ asked = <<>>
        /\ crashed = FALSE

\* the two branches of setAnswer exchanged
EliminatedSwapped(node, Answer) ==
    IF Answer THEN node.positive_ids ELSE node.negative_ids

\* the child's sets used for the current node's
EliminatedFromChild(node, Answer) ==
    IF node.left = nullptr THEN {}
    ELSE IF Answer THEN node.left.negative_ids ELSE node.right.positive_ids

\* the set setAnswer subtracts from characters: the node's negative ids on
\* a "yes", its positive ids on a "no"
Eliminated(node, Answer) ==
    IF Answer THEN node.negative_ids ELSE node.positive_ids

\* setAnswer with root pointing at a node (internal or leaf)
setAnswer(Answer) ==
    /\ ~crashed
    /\ root # nullptr
    /\ characters' = set_difference(characters, Eliminated(root, Answer))
    /\ root' = IF Answer THEN root.left ELSE root.right
    /\ answers' = Append(answers, Answer)
    /\ asked' = Append(asked, root.q_id)
    /\ IF root.left # nullptr
       THEN LET best == SelectBest(node_ids, node_questions)
            IN /\ node_ids' = set_intersection(node_ids,
                                 IF Answer THEN node_questions[best].positive_ids
                                           ELSE node_questions[best].negative_ids)
               /\ node_questions' = RemainingQuestions(node_questions, best)
       ELSE /\ node_ids' = {}
            /\ node_questions' = <<>>
    /\ UNCHANGED <<universe, pool, crashed>>

\* setAnswer with root == nullptr: root->negative_ids reads through a null
\* pointer.  Either the process dies, or the read yields some garbage set.
setAnswerNull ==
    /\ ~crashed
    /\ root = nullptr
    /\ \/ /\ crashed' = TRUE
          /\ UNCHANGED characters
       \/ /\ \E garbage \in SUBSET universe :
                 /\ garbage # {}
                 /\ garbage \subseteq characters
                 /\ characters' = set_difference(characters, garbage)
          /\ UNCHANGED crashed
    /\ UNCHANGED <<universe, pool, root, node_ids, node_questions, answers, asked>>

Next ==
    \/ \E Answer \in BOOLEAN : setAnswer(Answer)
    \/ setAnswerNull

Spec == Init /\ [][Next]_vars

\* ================================================================ claims

\* the session replayed from a fresh tree: the node and the characters set
\* after the first k recorded answers
RECURSIVE NodeAfter(_)
NodeAfter(k) ==
    IF k = 0 THEN buildTree(universe, pool)
    ELSE IF answers[k] THEN NodeAfter(k - 1).left ELSE NodeAfter(k - 1).right

RECURSIVE CharactersAfter(_)
CharactersAfter(k) ==
    IF k = 0 THEN universe
    ELSE set_difference(CharactersAfter(k - 1),
                        Eliminated(NodeAfter(k - 1), answers[k]))

\* C1: characters starts as the whole universe, and every setAnswer made at
\* an internal node leaves a subset of the former characters set, of no
\* greater size.
C1_RemainingOnlyShrinks ==
    /\ characters = universe
    /\ [][IsInternal(root) =>
            /\ characters' \subseteq characters
            /\ Cardinality(characters') <= Cardinality(characters)]_vars

\* an answer given at an internal node has removed an id and the session is
\* still at an internal node
C1_Witness ==
    /\ Len(answers) >= 1
    /\ characters # universe
    /\ characters # {}
    /\ IsInternal(root)

\* C2: after setAnswer at an internal node N, no id outside both
\* N.positive_ids and N.negative_ids is still in characters.
C2_UncoveredIdsDropped ==
    [][IsInternal(root) =>
         \A c \in characters' :
             c \in root.positive_ids \cup root.negative_ids]_vars

\* C3 as stated: with one character left at an internal node, setAnswer
\* leaves that one character.
C3_IdentifiedStaysIdentified ==
    [][(IsInternal(root) /\ Cardinality(characters) = 1) =>
            characters' = characters]_vars

\* C3 amended: with one character left at an internal node, setAnswer leaves
\* that character unless it is in the set the answer excludes (negative_ids
\* for yes, positive_ids for no); then characters becomes empty.
C3_IdentifiedOrExhausted ==
    [][(IsInternal(root) /\ Cardinality(characters) = 1) =>
            LET answer == answers'[Len(answers')]
                excluded == IF answer THEN root.negative_ids
                                      ELSE root.positive_ids
            IN characters' = IF characters \subseteq excluded
                             THEN {} ELSE characters]_vars

\* the last answer was given at an internal node with one character left,
\* and emptied the set
C3_Witness ==
    /\ Len(answers) >= 2
    /\ IsInternal(NodeAfter(Len(answers) - 1))
    /\ Cardinality(CharactersAfter(Len(answers) - 1)) = 1
    /\ characters = {}
    /\ root # nullptr

\* C4: the question at an internal node built for more than one id is a
\* record of minimum balance score in the pool the node was built from, and
\* every record before it in that pool scores strictly more.
C4_MostBalancedFirst ==
    (IsInternal(root) /\ Cardinality(node_ids) > 1) =>
        \E i \in 1..Len(node_questions) :
            /\ node_questions[i].q_id = root.q_id
            /\ \A j \in 1..Len(node_questions) :
                   /\ difference(node_ids, node_questions[i])
                        <= difference(node_ids, node_questions[j])
                   /\ j < i => difference(node_ids, node_questions[i])
                                 < difference(node_ids, node_questions[j])

\* the node was built from two records of equal score and the first was taken
C4_Witness ==
    /\ IsInternal(root)
    /\ Cardinality(node_ids) > 1
    /\ Len(node_questions) >= 2
    /\ root.q_id = node_questions[1].q_id
    /\ difference(node_ids, node_questions[1])
         = difference(node_ids, node_questions[2])
    /\ node_questions[1].positive_ids # node_questions[2].positive_ids

\* C5: a node built for exactly one id is the leaf announcing that id, even
\* with an empty pool; one built for another number of ids with an empty
\* pool is the "no more questions" leaf; with a universe of one id the fresh
\* session is at a leaf and getCharacter looks that id up.
C5_TerminalCasesInOrder ==
    root # nullptr =>
        /\ Cardinality(node_ids) = 1 =>
               \E c \in node_ids : root = IdentifiedLeaf(c)
        /\ (Cardinality(node_ids) # 1 /\ node_questions = <<>>) =>
               root = NoMoreQuestionsLeaf
        /\ (Cardinality(universe) = 1 /\ answers = <<>>) =>
               /\ IsLeaf(root)
               /\ \E c \in universe :
                      getCharacter = [outcome |-> "Lookup", id |-> c]

\* a node built for one id from an empty pool, reached by answers
C5_Witness ==
    /\ Len(answers) >= 1
    /\ Cardinality(node_ids) = 1
    /\ node_questions = <<>>
    /\ IsLeaf(root)

\* the q_ids of the records read from the CSV
PoolIds == { pool[i].q_id : i \in 1..Len(pool) }

\* every node below and including node is a leaf or has two children
RECURSIVE WellFormed(_)
WellFormed(node) ==
    \/ /\ node.q_id = LeafId
       /\ node.left = nullptr
       /\ node.right = nullptr
    \/ /\ node.q_id \in PoolIds
       /\ node.left # nullptr
       /\ node.right # nullptr
       /\ WellFormed(node.left)
       /\ WellFormed(node.right)

\* C6: every node of the tree buildTree returned is a leaf (q_id -1, both
\* children null) or carries a pool record's id and two non-null children.
C6_NoOneChildNode ==
    root # nullptr => WellFormed(root)

\* a fresh tree of depth two
C6_Witness ==
    /\ answers = <<>>
    /\ IsInternal(root)
    /\ IsInternal(root.left)
    /\ IsLeaf(root.right)

\* C7: setAnswer called at a leaf changes neither root nor characters.
C7_DoneIsTerminal ==
    [][IsLeaf(root) => (root' = root /\ characters' = characters)]_vars

\* C8: a node built for an empty set of ids is a leaf, whatever the pool.
C8_EmptyRemainingIsLeaf ==
    (root # nullptr /\ node_ids = {}) => IsLeaf(root)

\* C9: the answers given so far were given at distinct questions, there are
\* at most as many of them at internal nodes as the pool has records, and
\* after as many answers as the pool has records the session is at a leaf.
C9_EachQuestionOncePerPath ==
    /\ \A i, j \in 1..Len(asked) :
           (i # j /\ asked[i] # LeafId) => asked[i] # asked[j]
    /\ Cardinality({ i \in 1..Len(asked) : asked[i] # LeafId }) <= Len(pool)
    /\ (root # nullptr /\ Len(answers) >= Len(pool)) => IsLeaf(root)

\* every record of a pool of two or more has been asked and the session
\* stands at a leaf
C9_Witness ==
    /\ Len(pool) >= 2
    /\ Len(answers) = Len(pool)
    /\ IsLeaf(root)

\* every record's positive and negative ids are disjoint and cover the
\* universe
Partitioned ==
    \A i \in 1..Len(pool) :
        /\ pool[i].positive_ids \cap pool[i].negative_ids = {}
        /\ pool[i].positive_ids \cup pool[i].negative_ids = universe

\* C10 as stated: with partitioning records, at every node the session
\* visits characters is the set the node was built for, the node is the
\* leaf announcing X exactly when characters = {X}, and characters is not
\* empty.
C10_RemainingMatchesBuild ==
    (Partitioned /\ root # nullptr) =>
        /\ characters = node_ids
        /\ \A x \in universe : (root = IdentifiedLeaf(x)) <=> (characters = {x})
        /\ characters # {}

\* C10 amended: with partitioning records, at every node the session visits
\* characters is the set the node was built for, and the node is the leaf
\* announcing X exactly when characters = {X}; characters may be empty.
C10_RemainingMatchesBuildMaybeEmpty ==
    (Partitioned /\ root # nullptr) =>
        /\ characters = node_ids
        /\ \A x \in universe : (root = IdentifiedLeaf(x)) <=> (characters = {x})

\* partitioning records, an answer given, one character identified
C10_Witness ==
    /\ Partitioned
    /\ Len(pool) >= 2
    /\ Len(answers) >= 1
    /\ \E x \in universe : root = IdentifiedLeaf(x) /\ characters = {x}

====
